---- MODULE Spec2Model ----
(***************************************************************************)
(* processWithDelay (src/apptest/src/App.tsx, lines 64-125) as a state     *)
(* machine.  One invocation is an async function: it runs synchronously    *)
(* up to its first `await`, and afterwards in continuations that run when  *)
(* the awaited delay promise has settled.  The delay promise is settled    *)
(* either by its timer (resolve) or by the abort listener registered on    *)
(* the caller's AbortSignal (clearTimeout + reject).                       *)
(*                                                                         *)
(* Every variable is a function over the invocations of the run, so that   *)
(* one invocation and several concurrent invocations share the same        *)
(* definitions.  Each invocation has its own AbortController.              *)
(***************************************************************************)
EXTENDS Integers, Sequences, FiniteSets, TLC

\* ------------------------------------------------------------------ bounds
\* Longest items array that is enumerated.
MaxLen == 3
\* The numeric elements are drawn from 1..MaxNum.
MaxNum == 2

\* ------------------------------------------------------- program constants
\* `options.delayTime ?? 1000`
DefaultDelay == 1000

\* ------------------------------------------------------------------ inputs
\* An element of the array: a number, or a value of another type ("two").
NumberElems == {[type |-> "number", val |-> v] : v \in 1..MaxNum}
StringElem == [type |-> "string", val |-> 0]
Elems == NumberElems \cup {StringElem}

SeqsUpTo(S, n) == UNION {[1..k -> S] : k \in 0..n}

\* The first argument: an array of elements, or a value that is no array
\* (the tests pass the string "not an array").
NotAnArray == [kind |-> "string", elems |-> <<>>]
ArrayArgs == {[kind |-> "array", elems |-> s] : s \in SeqsUpTo(Elems, MaxLen)}
NumbersArgs == ArrayArgs \cup {NotAnArray}

\* options.delayTime is optional: <<>> is `undefined`, <<d>> is the value d.
DelayTimes == {0, 500}
DelayOpts == {<<>>} \cup {<<d>> : d \in DelayTimes}
\* onProgress / signal: TRUE when the option is provided.
OptionsArgs == [delayTime : DelayOpts, onProgress : BOOLEAN, signal : BOOLEAN]

VARIABLES
    numbers,        \* [p]: the `numbers` argument of invocation p
    options,        \* [p]: the `options` argument of invocation p
    pc,             \* [p]: "idle" (not called yet), "waiting" (suspended in the
                    \*      await, promise pending), "resolved" / "rejected"
                    \*      (promise settled, continuation queued), "done"
    i,              \* [p]: the loop variable i
    aborted,        \* [p]: signal.aborted of the invocation's token
    listeners,      \* [p]: the abort listeners attached to the token, each
                    \*      named by the timeoutId its closure captured
    timers,         \* [p]: the pending timeouts created by the invocation
    timersStarted,  \* [p]: number of setTimeout calls made so far
    timersExpired,  \* [p]: number of timeout callbacks that have run
    log,            \* [p]: the values passed to console.log, in order
    progress,       \* [p]: the argument pairs passed to onProgress, in order
    outcomes,       \* [p]: the outcomes surfaced to the caller, in order
    abortAt,        \* [p]: <<>> or <<[at, i]>>: where the invocation stood
                    \*      when controller.abort() was called
    table,          \* the useState values of the UserTable component
    loadMoreTimers, \* the pending timeouts set by loadMoreItems, each with
                    \* what its closure captured
    gestures        \* number of user gestures on the table so far

procVars == <<numbers, options, pc, i, aborted, listeners, timers,
              timersStarted, timersExpired, log, progress, outcomes, abortAt>>

tableVars == <<table, loadMoreTimers, gestures>>

vars == <<numbers, options, pc, i, aborted, listeners, timers, timersStarted,
          timersExpired, log, progress, outcomes, abortAt,
          table, loadMoreTimers, gestures>>

Procs == DOMAIN pc

\* --------------------------------------------------- the function's pieces
\* The mutable part of invocation p as one record.
Cur(p) ==
    [pc |-> pc[p], i |-> i[p], aborted |-> aborted[p],
     listeners |-> listeners[p], timers |-> timers[p],
     timersStarted |-> timersStarted[p],
     timersExpired |-> timersExpired[p], log |-> log[p],
     progress |-> progress[p], outcomes |-> outcomes[p],
     abortAt |-> abortAt[p]]

\* Faulty variant: Array.isArray is not consulted.
IsArrayUnchecked(nums) == TRUE

\* Array.isArray(numbers)
IsArray(nums) == nums.kind = "array"

\* Faulty variant: only the first element's type is tested.
SomeNotNumberFirstOnly(nums) ==
    Len(nums.elems) > 0 /\ nums.elems[1].type # "number"

\* numbers.some(item => typeof item !== 'number')
SomeNotNumber(nums) ==
    \E k \in 1..Len(nums.elems) : nums.elems[k].type # "number"

\* numbers.length === 0
IsEmpty(nums) == Len(nums.elems) = 0

\* const delayTime = options.delayTime ?? 1000
delayTime(opts) ==
    IF opts.delayTime = <<>> THEN DefaultDelay ELSE opts.delayTime[1]

\* Faulty variant: signal.aborted is never read.
SignalAbortedUnread(opts, m) == FALSE

\* signal?.aborted
SignalAborted(opts, m) == opts.signal /\ m.aborted

\* The async function's promise settles: a return or a throw.
Settle(m, out) ==
    [m EXCEPT !.pc = "done", !.outcomes = Append(@, out)]

\* The executor of `new Promise`: setTimeout, then addEventListener when a
\* signal was given; the function then suspends in the await.
StartDelay(opts, m) ==
    LET timeoutId == m.timersStarted + 1 IN
    [m EXCEPT !.pc = "waiting",
              !.timers = @ \cup {[id |-> timeoutId, delay |-> delayTime(opts)]},
              !.timersStarted = timeoutId,
              !.listeners = IF opts.signal THEN @ \cup {timeoutId} ELSE @]

\* Faulty variant: the loop stops one item early.
LoopCondOffByOne(nums, m) == m.i + 1 < Len(nums.elems)

\* i < numbers.length
LoopCond(nums, m) == m.i < Len(nums.elems)

\* Faulty variant: no cancellation check before the delay.
LoopHeadNoPreCheck(nums, opts, m) ==
    IF ~LoopCond(nums, m) THEN Settle(m, "completed")
    ELSE StartDelay(opts, m)

\* Faulty variant: the cancellation check runs ahead of the loop test.
LoopHeadChecksSignalFirst(nums, opts, m) ==
    IF SignalAborted(opts, m) THEN Settle(m, "Cancelled")
    ELSE IF ~LoopCond(nums, m) THEN Settle(m, "completed")
    ELSE StartDelay(opts, m)

\* The top of the for loop at index m.i: the loop test, the cancellation
\* check before the delay, and the start of the delay.
LoopHead(nums, opts, m) ==
    IF ~LoopCond(nums, m) THEN Settle(m, "completed")
    ELSE IF SignalAborted(opts, m) THEN Settle(m, "Cancelled")
    ELSE StartDelay(opts, m)

\* Faulty variant: the cancellation check is made ahead of the empty array
\* case.
EntryChecksSignalFirst(nums, opts, m) ==
    IF ~IsArray(nums) THEN Settle(m, "InvalidInput")
    ELSE IF SomeNotNumber(nums) THEN Settle(m, "InvalidElement")
    ELSE IF SignalAborted(opts, m) THEN Settle(m, "Cancelled")
    ELSE IF IsEmpty(nums) THEN Settle(m, "completed")
    ELSE LoopHead(nums, opts, [m EXCEPT !.i = 0])

\* Faulty variant: the cancellation check is made ahead of the validation.
EntryChecksSignalAtTop(nums, opts, m) ==
    IF SignalAborted(opts, m) THEN Settle(m, "Cancelled")
    ELSE IF ~IsArray(nums) THEN Settle(m, "InvalidInput")
    ELSE IF SomeNotNumber(nums) THEN Settle(m, "InvalidElement")
    ELSE IF IsEmpty(nums) THEN Settle(m, "completed")
    ELSE LoopHead(nums, opts, [m EXCEPT !.i = 0])

\* Faulty variant: the delay is put between the items only, so the first
\* item is processed at once.
EntryNoFirstDelay(nums, opts, m) ==
    IF ~IsArray(nums) THEN Settle(m, "InvalidInput")
    ELSE IF SomeNotNumber(nums) THEN Settle(m, "InvalidElement")
    ELSE IF IsEmpty(nums) THEN Settle(m, "completed")
    ELSE IF SignalAborted(opts, m) THEN Settle(m, "Cancelled")
    ELSE LoopHead(nums, opts,
                  [m EXCEPT !.i = 1,
                            !.log = Append(@, nums.elems[1].val),
                            !.progress = IF opts.onProgress
                                         THEN Append(@, <<1, Len(nums.elems)>>)
                                         ELSE @])

\* The call: validation, the empty array case, then the first iteration up
\* to its await.
Entry(nums, opts, m) ==
    IF ~IsArray(nums) THEN Settle(m, "InvalidInput")
    ELSE IF SomeNotNumber(nums) THEN Settle(m, "InvalidElement")
    ELSE IF IsEmpty(nums) THEN Settle(m, "completed")
    ELSE LoopHead(nums, opts, [m EXCEPT !.i = 0])

\* Faulty variant: the listener rejects without clearTimeout.
ClearTimeoutsMissing(tms, ids) == tms

\* clearTimeout(timeoutId) for each listener that runs.
ClearTimeouts(tms, ids) == {t \in tms : t.id \notin ids}

\* Faulty variant: a listener that runs fails the run whether or not the
\* promise it belongs to has settled already.
DispatchAbortFailsAlways(m, where) ==
    [m EXCEPT !.aborted = TRUE,
              !.abortAt = <<[at |-> where, i |-> m.i]>>,
              !.listeners = {},
              !.timers = ClearTimeouts(@, m.listeners),
              !.pc = IF m.listeners # {} /\ m.pc # "idle"
                     THEN "rejected" ELSE @]

\* Faulty variant: the listener clears the timeout and does not reject, so
\* the awaited promise never settles.
DispatchAbortNoReject(m, where) ==
    [m EXCEPT !.aborted = TRUE,
              !.abortAt = <<[at |-> where, i |-> m.i]>>,
              !.listeners = {},
              !.timers = ClearTimeouts(@, m.listeners)]

\* controller.abort(): signal.aborted becomes true and every attached
\* listener runs once and is removed ({ once: true }).  A listener clears
\* the timeout it captured and rejects its promise; rejecting has an effect
\* only on the promise that is still pending, the one being awaited.
DispatchAbort(m, where) ==
    LET pendingIds == {t.id : t \in m.timers} IN
    [m EXCEPT !.aborted = TRUE,
              !.abortAt = <<[at |-> where, i |-> m.i]>>,
              !.listeners = {},
              !.timers = ClearTimeouts(@, m.listeners),
              !.pc = IF m.pc = "waiting" /\ (pendingIds \cap m.listeners) # {}
                     THEN "rejected" ELSE @]

\* console.log(numbers[i])
ProcessItem(nums, m) ==
    [m EXCEPT !.log = Append(@, nums.elems[m.i + 1].val)]

\* Faulty variant: onProgress is given the index i, not the count i + 1.
UpdateProgressZeroBased(nums, opts, m, cancels) ==
    IF opts.onProgress
    THEN LET called == [m EXCEPT !.progress =
                            Append(@, <<m.i, Len(nums.elems)>>)]
         IN IF cancels THEN DispatchAbort(called, "callback") ELSE called
    ELSE m

\* if (onProgress) onProgress(i + 1, numbers.length)
\* cancels: the callback calls controller.abort() before it returns.
UpdateProgress(nums, opts, m, cancels) ==
    IF opts.onProgress
    THEN LET called == [m EXCEPT !.progress =
                            Append(@, <<m.i + 1, Len(nums.elems)>>)]
         IN IF cancels THEN DispatchAbort(called, "callback") ELSE called
    ELSE m

\* Faulty variant: no cancellation check after the delay.
ContinueNoPostCheck(nums, opts, m, cancels) ==
    IF m.pc = "rejected" THEN Settle(m, "Cancelled")
    ELSE LET after == UpdateProgress(nums, opts, ProcessItem(nums, m), cancels)
         IN LoopHead(nums, opts, [after EXCEPT !.i = @ + 1])

\* Faulty variant: progress is reported ahead of the check after the delay
\* and of the item.
ContinueProgressFirst(nums, opts, m, cancels) ==
    IF m.pc = "rejected" THEN Settle(m, "Cancelled")
    ELSE LET reported == UpdateProgress(nums, opts, m,
                                        cancels /\ ~SignalAborted(opts, m))
         IN IF SignalAborted(opts, m) THEN Settle(reported, "Cancelled")
            ELSE LoopHead(nums, opts,
                          [ProcessItem(nums, reported) EXCEPT !.i = @ + 1])

\* Faulty variant: the check after the delay is made after the item.
ContinueChecksAfterItem(nums, opts, m, cancels) ==
    IF m.pc = "rejected" THEN Settle(m, "Cancelled")
    ELSE IF SignalAborted(opts, m)
         THEN Settle(ProcessItem(nums, m), "Cancelled")
         ELSE LET after == UpdateProgress(nums, opts, ProcessItem(nums, m),
                                          cancels)
              IN LoopHead(nums, opts, [after EXCEPT !.i = @ + 1])

\* The continuation of the await: a rejected promise throws; otherwise the
\* cancellation check after the delay, the item, the progress callback,
\* i++ and the top of the loop again up to the next await.
Continue(nums, opts, m, cancels) ==
    IF m.pc = "rejected" THEN Settle(m, "Cancelled")
    ELSE IF SignalAborted(opts, m) THEN Settle(m, "Cancelled")
    ELSE LET after == UpdateProgress(nums, opts, ProcessItem(nums, m), cancels)
         IN LoopHead(nums, opts, [after EXCEPT !.i = @ + 1])

\* ------------------------------------------------------------------ actions
\* Faulty variant: the items already handled are overwritten in the
\* caller's array.
SetMarksProcessed(p, m) ==
    /\ pc' = [pc EXCEPT ![p] = m.pc]
    /\ i' = [i EXCEPT ![p] = m.i]
    /\ aborted' = [aborted EXCEPT ![p] = m.aborted]
    /\ listeners' = [listeners EXCEPT ![p] = m.listeners]
    /\ timers' = [timers EXCEPT ![p] = m.timers]
    /\ timersStarted' = [timersStarted EXCEPT ![p] = m.timersStarted]
    /\ timersExpired' = [timersExpired EXCEPT ![p] = m.timersExpired]
    /\ log' = [log EXCEPT ![p] = m.log]
    /\ progress' = [progress EXCEPT ![p] = m.progress]
    /\ outcomes' = [outcomes EXCEPT ![p] = m.outcomes]
    /\ abortAt' = [abortAt EXCEPT ![p] = m.abortAt]
    /\ numbers' = [numbers EXCEPT ![p].elems =
                      [k \in DOMAIN @ |->
                          IF k <= Len(m.log)
                          THEN [type |-> "number", val |-> 0] ELSE @[k]]]
    /\ UNCHANGED options
    /\ UNCHANGED tableVars

Set(p, m) ==
    /\ pc' = [pc EXCEPT ![p] = m.pc]
    /\ i' = [i EXCEPT ![p] = m.i]
    /\ aborted' = [aborted EXCEPT ![p] = m.aborted]
    /\ listeners' = [listeners EXCEPT ![p] = m.listeners]
    /\ timers' = [timers EXCEPT ![p] = m.timers]
    /\ timersStarted' = [timersStarted EXCEPT ![p] = m.timersStarted]
    /\ timersExpired' = [timersExpired EXCEPT ![p] = m.timersExpired]
    /\ log' = [log EXCEPT ![p] = m.log]
    /\ progress' = [progress EXCEPT ![p] = m.progress]
    /\ outcomes' = [outcomes EXCEPT ![p] = m.outcomes]
    /\ abortAt' = [abortAt EXCEPT ![p] = m.abortAt]
    /\ UNCHANGED <<numbers, options>>
    /\ UNCHANGED tableVars

\* processWithDelay(numbers, options) is called.
Call(p) ==
    /\ pc[p] = "idle"
    /\ Set(p, Entry(numbers[p], options[p], Cur(p)))

\* The delay's timer expires: () => resolve().  The continuation of the
\* await is queued, not run: where several timer callbacks run before the
\* queued continuations do (timers expiring in one batch), a caller's abort
\* can still land between the expiry and the continuation, which is the
\* case the check after the delay is written for.
TimerFire(p) ==
    /\ pc[p] = "waiting"
    /\ \E t \in timers[p] :
         Set(p, [Cur(p) EXCEPT !.timers = @ \ {t}, !.pc = "resolved",
                                !.timersExpired = @ + 1])

\* Faulty variant: the count passed to onProgress is kept in a counter that
\* all invocations share instead of being derived from the call's own i.
ResumeSharedCounter(p) ==
    /\ pc[p] \in {"resolved", "rejected"}
    /\ \E cancels \in BOOLEAN :
         /\ cancels => (pc[p] = "resolved" /\ options[p].onProgress
                        /\ options[p].signal /\ ~aborted[p])
         /\ LET m == Continue(numbers[p], options[p], Cur(p), cancels)
                others == Procs \ {p}
                shared == Len(progress[p])
                          + Len(progress[CHOOSE q \in Procs :
                                            others # {} => q \in others])
            IN Set(p, [m EXCEPT !.progress =
                          IF Len(@) > Len(progress[p])
                          THEN Append(progress[p],
                                      <<shared + 1, Len(numbers[p].elems)>>)
                          ELSE @])

\* The function resumes after the await.
Resume(p) ==
    /\ pc[p] \in {"resolved", "rejected"}
    /\ \E cancels \in BOOLEAN :
         /\ cancels => (pc[p] = "resolved" /\ options[p].onProgress
                        /\ options[p].signal /\ ~aborted[p])
         /\ Set(p, Continue(numbers[p], options[p], Cur(p), cancels))

\* Faulty variant: the invocations listen on one shared signal, so an abort
\* meant for one of them runs the listeners of all.
AbortShared(p) ==
    /\ options[p].signal
    /\ ~aborted[p]
    /\ LET hit(q) == IF q = p \/ (options[q].signal /\ ~aborted[q])
                     THEN DispatchAbort(Cur(q), pc[q]) ELSE Cur(q)
       IN /\ pc' = [q \in Procs |-> hit(q).pc]
          /\ aborted' = [q \in Procs |-> hit(q).aborted]
          /\ listeners' = [q \in Procs |-> hit(q).listeners]
          /\ timers' = [q \in Procs |-> hit(q).timers]
          /\ abortAt' = [q \in Procs |-> hit(q).abortAt]
          /\ UNCHANGED <<numbers, options, i, timersStarted, timersExpired,
                         log, progress, outcomes>>
          /\ UNCHANGED tableVars

\* The caller calls controller.abort() from outside the function.
Abort(p) ==
    /\ options[p].signal
    /\ ~aborted[p]
    /\ Set(p, DispatchAbort(Cur(p), pc[p]))

\* ---------------------------------------------------------------- UserTable
\* The UserTable component (src/unnamed/part_000).  `table` holds its
\* useState values; what a render derives from them (filteredUsers,
\* sortedUsers, totalPages, currentUsers) is computed from `table`.  An
\* action is one event handler together with the render and the effects
\* that follow it.

\* The check generates SampleCount users where the component generates 100
\* (generateSampleData(100)); it is more than one chunk and more than five
\* pages of five rows.
SampleCount == 26
\* Longest sequence of user gestures that is explored.
MaxGestures == 3

\* const infiniteScrollChunkSize = 20
infiniteScrollChunkSize == 20
\* useState(10) of rowsPerPage
InitialRowsPerPage == 10
\* The numeric <SelectItem> values of "Rows per page".
RowsPerPageOptions == {5, 10, 20, 50}
\* const maxVisiblePages = 5
maxVisiblePages == 5

Min(a, b) == IF a < b THEN a ELSE b
Max(a, b) == IF a > b THEN a ELSE b

\* Array.prototype.slice(start, end): negative indices count from the end,
\* both are clamped to the array.
JsSlice(s, start, end) ==
    LET n == Len(s)
        from == IF start < 0 THEN Max(n + start, 0) ELSE Min(start, n)
        to == IF end < 0 THEN Max(n + end, 0) ELSE Min(end, n)
    IN IF to <= from THEN <<>> ELSE SubSeq(s, from + 1, to)

\* Math.ceil(a / b) for a >= 0 and b > 0
CeilDiv(a, b) == (a + b - 1) \div b

\* One generated user.  The id is the k of `user-${k}`; the name is its
\* index among the 20 names, the date a day count.  The component draws
\* name, balance, date and status at random: two of the possible draws are
\* taken, one with active and inactive users and one with active users only.
SampleUser(k, draw) ==
    [id |-> k,
     name |-> (k * 7) % 20,
     balance |-> 1000 + ((k * 37) % 101),
     registerAt |-> (k * 11) % 17,
     active |-> IF draw = "mixed" THEN k % 3 # 0 ELSE TRUE]

generateSampleData(count) ==
    {[k \in 1..count |-> SampleUser(k, draw)] : draw \in {"mixed", "active"}}

\* users.filter(...) by filterStatus
filteredUsers(t) ==
    LET keep(user) == IF t.filterStatus = "active" THEN user.active
                      ELSE IF t.filterStatus = "inactive" THEN ~user.active
                      ELSE TRUE
    IN SelectSeq(t.users, keep)

\* The comparator handed to sort: negative when a goes first.
Compare(t, a, b) ==
    IF t.sortColumn = "name"
    THEN IF t.sortOrder = "asc" THEN a.name - b.name ELSE b.name - a.name
    ELSE IF t.sortColumn = "balance"
    THEN IF t.sortOrder = "asc" THEN a.balance - b.balance
         ELSE b.balance - a.balance
    ELSE IF t.sortColumn = "registerAt"
    THEN IF t.sortOrder = "asc" THEN a.registerAt - b.registerAt
         ELSE b.registerAt - a.registerAt
    ELSE 0

\* Array.prototype.sort is stable: x goes behind every element that does
\* not compare greater than it.
Insert(t, s, x) ==
    LET k == Cardinality({j \in 1..Len(s) : Compare(t, s[j], x) <= 0})
    IN SubSeq(s, 1, k) \o <<x>> \o SubSeq(s, k + 1, Len(s))

RECURSIVE SortFirst(_, _, _)
SortFirst(t, f, n) ==
    IF n = 0 THEN <<>> ELSE Insert(t, SortFirst(t, f, n - 1), f[n])

\* What the useMemo of sortedUsers computes: [...filteredUsers].sort(...)
SortFiltered(t) == SortFirst(t, filteredUsers(t), Len(filteredUsers(t)))

\* The memoized sortedUsers of the latest render.
sortedUsers(t) == t.sortedUsers

\* Math.ceil(sortedUsers.length / rowsPerPage); read in pagination mode
\* only, where rowsPerPage is one of the numeric options.
totalPages(t) == CeilDiv(Len(sortedUsers(t)), t.rowsPerPage)
startIndex(t) == (t.currentPage - 1) * t.rowsPerPage
endIndex(t) == startIndex(t) + t.rowsPerPage
currentUsers(t) == JsSlice(sortedUsers(t), startIndex(t), endIndex(t))

\* const targetUsers = isInfiniteScroll ? visibleUsers : currentUsers
\* (also the rows the table body shows)
targetUsers(t) == IF t.isInfiniteScroll THEN t.visibleUsers ELSE currentUsers(t)

Ids(rows) == [k \in 1..Len(rows) |-> rows[k].id]
Includes(s, x) == \E k \in 1..Len(s) : s[k] = x

\* The render after a state change, and the effect with the dependencies
\* [sortedUsers, isInfiniteScroll].  The memos recompute, and sortedUsers
\* is a new array, whenever users, filterStatus, sortColumn or sortOrder
\* changed.
Rendered(prev, next) ==
    LET resorted == \/ prev.users # next.users
                    \/ prev.filterStatus # next.filterStatus
                    \/ prev.sortColumn # next.sortColumn
                    \/ prev.sortOrder # next.sortOrder
        memo == IF resorted
                THEN [next EXCEPT !.sortedUsers = SortFiltered(next)]
                ELSE next
    IN IF (resorted \/ prev.isInfiniteScroll # next.isInfiniteScroll)
          /\ memo.isInfiniteScroll
       THEN [memo EXCEPT !.visibleUsers =
                JsSlice(sortedUsers(memo), 0, infiniteScrollChunkSize)]
       ELSE memo

\* The page links renderPaginationItems shows.
PageLinks(t) ==
    IF totalPages(t) <= maxVisiblePages THEN 1..totalPages(t)
    ELSE {1, totalPages(t)}
         \cup (Max(2, t.currentPage - 1)
               .. Min(totalPages(t) - 1, t.currentPage + 1))

\* The state after the first render: the useState initial values and the
\* sortedUsers memo of the empty users.
Mounted ==
    /\ table = [users |-> <<>>, initialLoading |-> TRUE,
                loadingMore |-> FALSE, currentPage |-> 1,
                rowsPerPage |-> InitialRowsPerPage,
                selectedUsers |-> <<>>, selectAll |-> FALSE,
                filterStatus |-> "all", sortColumn |-> "name",
                sortOrder |-> "asc", isInfiniteScroll |-> FALSE,
                visibleUsers |-> <<>>, sortedUsers |-> <<>>]
    /\ loadMoreTimers = {}
    /\ gestures = 0

\* A user gesture: the handler's state change, then render and effects.
Gesture(next) ==
    /\ gestures < MaxGestures
    /\ gestures' = gestures + 1
    /\ table' = Rendered(table, next)
    /\ UNCHANGED loadMoreTimers
    /\ UNCHANGED procVars

\* The mount effect's timeout: setUsers(generateSampleData(100)),
\* setInitialLoading(false).
LoadData ==
    /\ table.initialLoading
    /\ \E data \in generateSampleData(SampleCount) :
         table' = Rendered(table, [table EXCEPT !.users = data,
                                                !.initialLoading = FALSE])
    /\ UNCHANGED <<loadMoreTimers, gestures>>
    /\ UNCHANGED procVars

\* <Select value={filterStatus} onValueChange={setFilterStatus}>
SetFilterStatus ==
    \E value \in {"all", "active", "inactive"} \ {table.filterStatus} :
        Gesture([table EXCEPT !.filterStatus = value])

\* <Select value={sortColumn} onValueChange={setSortColumn}>
SetSortColumn ==
    \E value \in {"name", "balance", "registerAt"} \ {table.sortColumn} :
        Gesture([table EXCEPT !.sortColumn = value])

\* <Select value={sortOrder} onValueChange={setSortOrder}>
SetSortOrder ==
    \E value \in {"asc", "desc"} \ {table.sortOrder} :
        Gesture([table EXCEPT !.sortOrder = value])

\* handleRowsPerPageChange('all')
RowsPerPageAll ==
    /\ ~table.isInfiniteScroll
    /\ Gesture([table EXCEPT !.rowsPerPage = Len(table.users),
                             !.isInfiniteScroll = TRUE,
                             !.currentPage = 1])

\* handleRowsPerPageChange('5' | '10' | '20' | '50')
RowsPerPageNumber ==
    \E value \in RowsPerPageOptions :
        /\ table.isInfiniteScroll \/ value # table.rowsPerPage
        /\ Gesture([table EXCEPT !.rowsPerPage = value,
                                 !.isInfiniteScroll = FALSE,
                                 !.currentPage = 1])

\* PaginationPrevious: setCurrentPage(prev => Math.max(1, prev - 1))
PreviousPage ==
    /\ ~table.isInfiniteScroll
    /\ table.currentPage # 1
    /\ Gesture([table EXCEPT !.currentPage = Max(1, @ - 1)])

\* PaginationNext: setCurrentPage(prev => Math.min(totalPages, prev + 1))
NextPage ==
    /\ ~table.isInfiniteScroll
    /\ table.currentPage # totalPages(table)
    /\ Gesture([table EXCEPT !.currentPage = Min(totalPages(table), @ + 1)])

\* PaginationLink: setCurrentPage(i)
GoToPage ==
    /\ ~table.isInfiniteScroll
    /\ \E page \in PageLinks(table) \ {table.currentPage} :
         Gesture([table EXCEPT !.currentPage = page])

\* toggleSelectAll
toggleSelectAll ==
    /\ ~table.initialLoading
    /\ Gesture([table EXCEPT
                  !.selectedUsers = IF table.selectAll THEN <<>>
                                    ELSE Ids(targetUsers(table)),
                  !.selectAll = ~table.selectAll])

\* toggleSelectUser(user.id) on a row that is shown
toggleSelectUser ==
    /\ ~table.initialLoading
    /\ \E k \in 1..Len(targetUsers(table)) :
         LET id == targetUsers(table)[k].id
         IN
         IF Includes(table.selectedUsers, id)
         THEN Gesture([table EXCEPT
                  !.selectedUsers = SelectSeq(@, LAMBDA userId : userId # id),
                  !.selectAll = FALSE])
         ELSE Gesture([table EXCEPT
                  !.selectedUsers = Append(@, id),
                  !.selectAll =
                      IF Len(table.selectedUsers) + 1
                           = Len(targetUsers(table))
                      THEN TRUE ELSE @])

\* The IntersectionObserver sees the target: loadMoreItems().
loadMoreItems ==
    /\ table.isInfiniteScroll /\ ~table.initialLoading
    /\ ~(table.loadingMore
         \/ Len(table.visibleUsers) >= Len(sortedUsers(table)))
    /\ table' = [table EXCEPT !.loadingMore = TRUE]
    /\ loadMoreTimers' = loadMoreTimers \cup
           {[sortedUsers |-> sortedUsers(table),
             visibleLength |-> Len(table.visibleUsers)]}
    /\ UNCHANGED gestures
    /\ UNCHANGED procVars

\* The timeout of loadMoreItems expires: the closure appends the next
\* chunk of the sortedUsers it captured.
LoadMoreTimeout ==
    \E t \in loadMoreTimers :
        LET nextItems == JsSlice(t.sortedUsers, t.visibleLength,
                                 t.visibleLength + infiniteScrollChunkSize)
        IN /\ table' = [table EXCEPT !.visibleUsers = @ \o nextItems,
                                     !.loadingMore = FALSE]
           /\ loadMoreTimers' = loadMoreTimers \ {t}
           /\ UNCHANGED gestures
           /\ UNCHANGED procVars

\* Nothing has run yet: no timer, no listener, no output.
InitState(P) ==
    /\ pc = [p \in P |-> "idle"]
    /\ i = [p \in P |-> 0]
    /\ aborted = [p \in P |-> FALSE]
    /\ listeners = [p \in P |-> {}]
    /\ timers = [p \in P |-> {}]
    /\ timersStarted = [p \in P |-> 0]
    /\ timersExpired = [p \in P |-> 0]
    /\ log = [p \in P |-> <<>>]
    /\ progress = [p \in P |-> <<>>]
    /\ outcomes = [p \in P |-> <<>>]
    /\ abortAt = [p \in P |-> <<>>]

InitOn(P) ==
    /\ numbers \in [P -> NumbersArgs]
    /\ options \in [P -> OptionsArgs]
    /\ InitState(P)

Init == InitOn({"a"}) /\ Mounted

Next ==
    \/ \E p \in Procs : Call(p)
    \/ \E p \in Procs : TimerFire(p)
    \/ \E p \in Procs : Resume(p)
    \/ \E p \in Procs : Abort(p)

Spec == Init /\ [][Next]_vars

\* The event loop runs every expired timer's callback and every queued
\* continuation, and the caller makes the call; nothing obliges the caller
\* to abort.
LiveSpec ==
    /\ Spec
    /\ WF_vars(Call("a"))
    /\ WF_vars(TimerFire("a"))
    /\ WF_vars(Resume("a"))

\* ------------------------------------------------- two concurrent calls
\* Two invocations "a" and "b", each with its own AbortController, whose
\* timer expiries, continuations and aborts interleave freely.  The arrays
\* are the numeric arrays <<1, 2, 1, ...>> of length 0..PairMaxLen.
PairMaxLen == 2

PairArray(n) ==
    [kind |-> "array",
     elems |-> [k \in 1..n |-> [type |-> "number",
                                 val |-> ((k - 1) % MaxNum) + 1]]]
PairNumbersArgs == {PairArray(n) : n \in 0..PairMaxLen}
PairOptionsArgs == [delayTime : {<<>>}, onProgress : BOOLEAN, signal : BOOLEAN]

InitPair ==
    /\ numbers \in [{"a", "b"} -> PairNumbersArgs]
    /\ options \in [{"a", "b"} -> PairOptionsArgs]
    /\ InitState({"a", "b"})
    /\ Mounted

SpecPair == InitPair /\ [][Next]_vars

\* ------------------------------------------------------ the table alone
\* The mounted UserTable with no processWithDelay invocation.
InitTable ==
    /\ numbers = <<>>
    /\ options = <<>>
    /\ InitState({})
    /\ Mounted

NextTable ==
    \/ LoadData
    \/ SetFilterStatus
    \/ SetSortColumn
    \/ SetSortOrder
    \/ RowsPerPageAll
    \/ RowsPerPageNumber
    \/ PreviousPage
    \/ NextPage
    \/ GoToPage
    \/ toggleSelectAll
    \/ toggleSelectUser
    \/ loadMoreItems
    \/ LoadMoreTimeout

SpecTable == InitTable /\ [][NextTable]_vars

\* ------------------------------------------------------------- properties
\* What the properties say about an invocation, stated on the arguments and
\* the observed events only.
Items(p) == numbers[p].elems
Total(p) == Len(Items(p))
AllNumeric(p) ==
    /\ numbers[p].kind = "array"
    /\ \A k \in 1..Total(p) : Items(p)[k].type = "number"
\* The values of the first k items, in index order.
FirstValues(p, k) == [j \in 1..k |-> Items(p)[j].val]
\* The progress calls (1,n),(2,n),...,(k,n).
FirstProgress(p, k) == [j \in 1..k |-> <<j, Total(p)>>]
Terminated(p) == pc[p] = "done"
\* The token was cancelled while the invocation stood at one of `places`.
CancelledAt(p, places) == abortAt[p] # <<>> /\ abortAt[p][1].at \in places

\* C1: a run over n >= 1 numbers whose token is never cancelled (or that
\* has no token) performs the n item actions in index order, calls
\* onProgress (when given) with (1,n),...,(n,n) in that order, and then
\* completes successfully.
C1_FullRun ==
    \A p \in Procs :
        (AllNumeric(p) /\ Total(p) > 0 /\ Terminated(p) /\ ~aborted[p]) =>
            /\ log[p] = FirstValues(p, Total(p))
            /\ progress[p] = IF options[p].onProgress
                             THEN FirstProgress(p, Total(p)) ELSE <<>>
            /\ outcomes[p] = <<"completed">>

C1_Witness ==
    \E p \in Procs :
        /\ Terminated(p) /\ ~aborted[p] /\ options[p].onProgress
        /\ Total(p) >= 2 /\ Items(p)[1] # Items(p)[2]
        /\ outcomes[p] = <<"completed">>
        /\ Len(progress[p]) = Total(p)

\* C2: when the token is signalled while the invocation is suspended in the
\* delay for item k (loop index k-1; the timer pending, or expired with the
\* continuation not yet run), the item actions and the progress calls of
\* the invocation are exactly those of items 1..k-1, and it fails with
\* Cancelled.
C2_CancelDuringWait ==
    \A p \in Procs :
        CancelledAt(p, {"waiting", "resolved"}) =>
            LET done == abortAt[p][1].i IN
            /\ log[p] = FirstValues(p, done)
            /\ progress[p] = IF options[p].onProgress
                             THEN FirstProgress(p, done) ELSE <<>>
            /\ outcomes[p] = IF Terminated(p) THEN <<"Cancelled">> ELSE <<>>

C2_Witness ==
    \E p \in Procs :
        /\ CancelledAt(p, {"waiting"}) /\ abortAt[p][1].i >= 1
        /\ abortAt[p][1].i < Total(p) - 1
        /\ options[p].onProgress
        /\ Terminated(p) /\ outcomes[p] = <<"Cancelled">>

\* C3: an abort that arrives while the invocation waits on a pending timer
\* itself ends the wait: the promise is rejected in that step and the timer
\* is cleared, so no timer expiry can resume the run; the continuation of a
\* rejected wait fails the run with Cancelled and does nothing else.
C3_WaitInterruptible ==
    /\ [][\A p \in Procs :
            /\ (pc[p] = "waiting" /\ ~aborted[p] /\ aborted'[p]) =>
                   (pc'[p] = "rejected" /\ timers'[p] = {})
            /\ (pc[p] = "rejected" /\ pc'[p] # "rejected") =>
                   /\ pc'[p] = "done" /\ outcomes'[p] = <<"Cancelled">>
                   /\ log'[p] = log[p] /\ progress'[p] = progress[p]
                   /\ timersStarted'[p] = timersStarted[p]]_vars
    /\ [](\A p \in Procs : pc[p] = "rejected" => timers[p] = {})

C3_Witness ==
    \E p \in Procs :
        /\ pc[p] = "rejected" /\ i[p] >= 1
        /\ timersStarted[p] = i[p] + 1 /\ timers[p] = {}

\* C4: a token already cancelled when the function is called with a
\* non-empty array of numbers makes it fail with Cancelled with no item
\* action, no progress call and no delay timer started.
C4_CancelledBeforeCall ==
    \A p \in Procs :
        (AllNumeric(p) /\ Total(p) > 0 /\ CancelledAt(p, {"idle"})
         /\ Terminated(p)) =>
            /\ outcomes[p] = <<"Cancelled">>
            /\ log[p] = <<>> /\ progress[p] = <<>>
            /\ timersStarted[p] = 0 /\ timers[p] = {}

C4_Witness ==
    \E p \in Procs :
        /\ AllNumeric(p) /\ Total(p) > 0 /\ CancelledAt(p, {"idle"})
        /\ Terminated(p) /\ options[p].onProgress

\* C5: once the token is cancelled, no step adds an item action or a
\* progress call.
C5_NothingAfterCancel ==
    [][\A p \in Procs :
          aborted[p] => (log'[p] = log[p] /\ progress'[p] = progress[p])]_vars

C5_Witness ==
    \E p \in Procs :
        /\ aborted[p] /\ Terminated(p) /\ CancelledAt(p, {"resolved"})
        /\ Len(log[p]) >= 1 /\ Len(log[p]) < Total(p)

\* C6: a token cancelled while the invocation on a non-empty array of
\* numbers is running (in a wait, or from inside an onProgress callback)
\* makes it surface exactly one outcome, the Cancelled failure.
C6_CancelAlwaysFails ==
    \A p \in Procs :
        (AllNumeric(p) /\ Total(p) > 0 /\ Terminated(p)
         /\ CancelledAt(p, {"waiting", "resolved", "callback"})) =>
            outcomes[p] = <<"Cancelled">>

\* C7: an empty array completes successfully with no delay timer, no item
\* action and no progress call, whatever delayTime is.
C7_EmptyArray ==
    \A p \in Procs :
        (numbers[p].kind = "array" /\ Total(p) = 0 /\ Terminated(p)) =>
            /\ outcomes[p] = <<"completed">>
            /\ timersStarted[p] = 0 /\ timers[p] = {}
            /\ log[p] = <<>> /\ progress[p] = <<>>

C7_Witness ==
    \E p \in Procs :
        /\ numbers[p].kind = "array" /\ Total(p) = 0 /\ Terminated(p)
        /\ options[p].delayTime # <<>> /\ options[p].onProgress
        /\ aborted[p]

\* C8: an argument that is no array fails with InvalidInput and nothing
\* precedes the failure: no item action, no progress call, no timer, no
\* listener on the token.
C8_NotAnArray ==
    \A p \in Procs :
        (numbers[p].kind # "array" /\ Terminated(p)) =>
            /\ outcomes[p] = <<"InvalidInput">>
            /\ log[p] = <<>> /\ progress[p] = <<>>
            /\ timersStarted[p] = 0 /\ timers[p] = {} /\ listeners[p] = {}

C8_Witness ==
    \E p \in Procs :
        /\ numbers[p].kind # "array" /\ Terminated(p)
        /\ options[p].signal /\ options[p].onProgress /\ ~aborted[p]

\* C9: an array with a non-numeric element at any index fails with
\* InvalidElement before any delay, item action or progress call, so the
\* numbers ahead of the offending element are not processed.
C9_NonNumericElement ==
    \A p \in Procs :
        (numbers[p].kind = "array" /\ ~AllNumeric(p) /\ Terminated(p)) =>
            /\ outcomes[p] = <<"InvalidElement">>
            /\ log[p] = <<>> /\ progress[p] = <<>>
            /\ timersStarted[p] = 0 /\ timers[p] = {}

C9_Witness ==
    \E p \in Procs :
        /\ numbers[p].kind = "array" /\ Total(p) >= 2 /\ Terminated(p)
        /\ Items(p)[1].type = "number"
        /\ Items(p)[Total(p)].type # "number"
        /\ options[p].onProgress

\* C10: completion is all-or-nothing: on n numbers the outcome is
\* "completed" only with all n item actions performed, and Cancelled only
\* with fewer than n.
C10_AllOrNothing ==
    \A p \in Procs :
        AllNumeric(p) =>
            /\ (outcomes[p] = <<"completed">>) => Len(log[p]) = Total(p)
            /\ (outcomes[p] = <<"Cancelled">>) => Len(log[p]) < Total(p)

C10_Witness ==
    \E p \in Procs :
        /\ AllNumeric(p) /\ outcomes[p] = <<"Cancelled">>
        /\ Total(p) >= 2 /\ Len(log[p]) = Total(p) - 1

\* The part of the state that belongs to invocation p and its token.
Own(p) == <<numbers[p], options[p], Cur(p)>>

\* C11: two invocations with separate tokens are independent under every
\* interleaving: a step that cancels the token of one leaves everything of
\* the other as it was (every step touches one invocation only), and the
\* other still ends as it would alone: uncancelled, it performs all its
\* item actions and progress calls and completes.
C11_Independent ==
    /\ [][\A p \in Procs : \A q \in Procs \ {p} :
            (Own(p)' # Own(p)) => (Own(q)' = Own(q))]_vars
    /\ [](\A q \in Procs :
            (Terminated(q) /\ ~aborted[q] /\ Total(q) > 0) =>
                /\ log[q] = FirstValues(q, Total(q))
                /\ progress[q] = IF options[q].onProgress
                                 THEN FirstProgress(q, Total(q)) ELSE <<>>
                /\ outcomes[q] = <<"completed">>)

C11_Witness ==
    /\ Procs = {"a", "b"}
    /\ CancelledAt("a", {"waiting"}) /\ outcomes["a"] = <<"Cancelled">>
    /\ Len(log["a"]) = 1 /\ Total("a") = 2
    /\ ~aborted["b"] /\ options["b"].signal /\ options["b"].onProgress
    /\ Total("b") = 2 /\ outcomes["b"] = <<"completed">>
    /\ Len(progress["b"]) = 2

\* C12: two independent invocations with identical items and options and
\* no cancellation end with identical item actions, identical progress
\* calls and identical outcomes, whatever the interleaving of their steps.
C12_Deterministic ==
    \A p \in Procs : \A q \in Procs :
        (/\ numbers[p] = numbers[q] /\ options[p] = options[q]
         /\ Terminated(p) /\ Terminated(q)
         /\ ~aborted[p] /\ ~aborted[q]) =>
            /\ log[p] = log[q]
            /\ progress[p] = progress[q]
            /\ outcomes[p] = outcomes[q]

C12_Witness ==
    /\ Procs = {"a", "b"}
    /\ numbers["a"] = numbers["b"] /\ options["a"] = options["b"]
    /\ Total("a") = 2 /\ options["a"].onProgress
    /\ Terminated("a") /\ Terminated("b")
    /\ ~aborted["a"] /\ ~aborted["b"]
    /\ Len(progress["a"]) = 2 /\ Len(log["b"]) = 2

\* C13: in every reachable state of an invocation, running or ended, the
\* onProgress calls made so far are exactly (1,n),(2,n),...,(m,n) for some
\* m <= n, n the length of the array: the count starts at 1, grows by one
\* per call, and the total is always n.
C13_ProgressSequence ==
    \A p \in Procs :
        /\ Len(progress[p]) <= Total(p)
        /\ progress[p] = FirstProgress(p, Len(progress[p]))

C13_Witness ==
    \E p \in Procs :
        /\ pc[p] = "waiting" /\ Len(progress[p]) = 2 /\ Total(p) = 3
        /\ progress[p][2] = <<2, 3>>

\* C14: with onProgress given, the progress call of item k comes with item
\* k's action and ahead of the delay of item k+1: whenever the invocation
\* is suspended in a delay or has ended, there are as many progress calls
\* as item actions, and while it is suspended in the delay at loop index i
\* there are exactly i of each.
C14_ProgressWithItem ==
    \A p \in Procs :
        (options[p].onProgress /\ pc[p] # "idle") =>
            /\ Len(progress[p]) = Len(log[p])
            /\ (pc[p] \in {"waiting", "resolved", "rejected"}) =>
                   (Len(log[p]) = i[p] /\ timersStarted[p] = i[p] + 1)

C14_Witness ==
    \E p \in Procs :
        /\ options[p].onProgress /\ Terminated(p)
        /\ outcomes[p] = <<"Cancelled">> /\ CancelledAt(p, {"resolved"})
        /\ Len(progress[p]) = 2 /\ Len(log[p]) = 2

\* C15: the delay comes ahead of every item, the first included: k item
\* actions have been performed only when at least k timers of the
\* invocation have run to expiry, and a successful run over n items has
\* suspended exactly n times, each time in a delay that expired.
C15_DelayBeforeEveryItem ==
    \A p \in Procs :
        /\ Len(log[p]) <= timersExpired[p]
        /\ timersExpired[p] <= timersStarted[p]
        /\ (AllNumeric(p) /\ outcomes[p] = <<"completed">>) =>
               (timersStarted[p] = Total(p) /\ timersExpired[p] = Total(p))

C15_Witness ==
    \E p \in Procs :
        /\ outcomes[p] = <<"completed">> /\ Total(p) = 3
        /\ timersExpired[p] = 3 /\ Len(log[p]) = 3 /\ ~options[p].signal

\* C16: when the token is found cancelled as the invocation resumes from
\* the delay of item k (the timer expired, then the abort arrived, then the
\* continuation ran), the invocation fails with Cancelled at the check
\* after the delay, without the action or the progress call of item k.
C16_PostWaitCheck ==
    \A p \in Procs :
        CancelledAt(p, {"resolved"}) =>
            /\ pc[p] \in {"resolved", "done"}
            /\ i[p] = abortAt[p][1].i
            /\ Len(log[p]) = i[p] /\ timersExpired[p] = i[p] + 1
            /\ Len(progress[p]) = IF options[p].onProgress THEN i[p] ELSE 0
            /\ Terminated(p) => outcomes[p] = <<"Cancelled">>

C16_Witness ==
    \E p \in Procs :
        /\ CancelledAt(p, {"resolved"}) /\ Terminated(p)
        /\ i[p] = 1 /\ timersExpired[p] = 2 /\ log[p] = <<Items(p)[1].val>>
        /\ outcomes[p] = <<"Cancelled">>

\* The outcomes an invocation can surface.
OutcomeKinds == {"completed", "InvalidInput", "InvalidElement", "Cancelled"}
\* What an invocation itself does: its position, its outputs, its timers.
Activity(p) ==
    <<pc[p], i[p], log[p], progress[p], outcomes[p], timers[p],
      timersStarted[p], timersExpired[p]>>

\* C17: every invocation terminates: with every started timer expiring
\* unless it is cleared, an invocation on any input ends with exactly one
\* outcome of the four kinds, whether or not and whenever its token is
\* cancelled, and once it has ended it does nothing more.
C17_Terminates ==
    /\ <>[](/\ pc["a"] = "done"
            /\ Len(outcomes["a"]) = 1
            /\ outcomes["a"][1] \in OutcomeKinds)
    /\ [][pc["a"] = "done" => Activity("a")' = Activity("a")]_vars

C17_Witness ==
    \E p \in Procs :
        /\ Terminated(p) /\ CancelledAt(p, {"callback"})
        /\ outcomes[p] = <<"Cancelled">> /\ timersExpired[p] = 2
        /\ Total(p) = 3

\* C18: no delay timer outlives its invocation: an ended invocation has no
\* pending timer, however it ended, and an invocation never has more than
\* one timer pending.
C18_NoTimerLeft ==
    \A p \in Procs :
        /\ Terminated(p) => timers[p] = {}
        /\ Cardinality(timers[p]) <= 1
        /\ timers[p] # {} => pc[p] = "waiting"

C18_Witness ==
    \E p \in Procs :
        /\ Terminated(p) /\ timers[p] = {} /\ timersStarted[p] = 3
        /\ timersExpired[p] = 2 /\ outcomes[p] = <<"Cancelled">>

\* C19: no step of the function changes the token or the array: the array
\* and the options stay as passed, the token only moves from active to
\* cancelled and never back, and it moves only in a caller's abort (from
\* outside, or from the caller's onProgress callback).
C19_TokenAndItemsUntouched ==
    [][\A p \in Procs :
          /\ numbers'[p] = numbers[p]
          /\ options'[p] = options[p]
          /\ aborted[p] => aborted'[p]
          /\ (aborted'[p] # aborted[p]) =>
                 \/ Abort(p)
                 \/ /\ Resume(p) /\ options[p].onProgress
                    /\ abortAt'[p] = <<[at |-> "callback", i |-> i[p]]>>
          /\ (Call(p) \/ TimerFire(p)) => aborted'[p] = aborted[p]]_vars

C19_Witness ==
    \E p \in Procs :
        /\ aborted[p] /\ CancelledAt(p, {"done"})
        /\ outcomes[p] = <<"completed">> /\ Len(log[p]) = 3
        /\ listeners[p] = {}

\* C20: validation and the empty array case come ahead of cancellation:
\* with the token cancelled before the call, a non-array still fails with
\* InvalidInput, an array with a non-numeric element with InvalidElement,
\* an empty array still completes; Cancelled is the outcome only of a
\* non-empty array of numbers.
C20_ValidationFirst ==
    \A p \in Procs :
        /\ (CancelledAt(p, {"idle"}) /\ Terminated(p)) =>
               outcomes[p] =
                   IF numbers[p].kind # "array" THEN <<"InvalidInput">>
                   ELSE IF ~AllNumeric(p) THEN <<"InvalidElement">>
                   ELSE IF Total(p) = 0 THEN <<"completed">>
                   ELSE <<"Cancelled">>
        /\ (outcomes[p] = <<"Cancelled">>) => (AllNumeric(p) /\ Total(p) > 0)

C20_Witness ==
    \E p \in Procs :
        /\ CancelledAt(p, {"idle"}) /\ Terminated(p)
        /\ numbers[p].kind = "array" /\ ~AllNumeric(p)
        /\ outcomes[p] = <<"InvalidElement">>

\* C21: when the token is cancelled from inside the onProgress callback
\* of item k < n, the invocation fails with Cancelled at the check ahead of
\* the delay of item k+1: no timer and no listener is made for item k+1,
\* and exactly k item actions and k progress calls have been performed.
C21_CancelInCallback ==
    \A p \in Procs :
        (CancelledAt(p, {"callback"}) /\ abortAt[p][1].i + 1 < Total(p)) =>
            LET k == abortAt[p][1].i + 1 IN
            /\ Terminated(p) /\ outcomes[p] = <<"Cancelled">>
            /\ log[p] = FirstValues(p, k)
            /\ progress[p] = FirstProgress(p, k)
            /\ timersStarted[p] = k /\ timersExpired[p] = k
            /\ timers[p] = {} /\ listeners[p] = {}

C21_Witness ==
    \E p \in Procs :
        /\ CancelledAt(p, {"callback"}) /\ abortAt[p][1].i = 1
        /\ Total(p) = 3 /\ Len(progress[p]) = 2
        /\ outcomes[p] = <<"Cancelled">>

\* C22: a cancellation that arrives after the invocation has surfaced its
\* outcome changes nothing of it: the outcome stays as it was, and the
\* listeners left on the token cause no item action, no progress call and
\* no timer when they run.
C22_LateCancelHarmless ==
    /\ [][\A p \in Procs :
            (pc[p] = "done" /\ aborted'[p] # aborted[p]) =>
                Activity(p)' = Activity(p)]_vars
    /\ [](\A p \in Procs :
            CancelledAt(p, {"done"}) =>
                /\ pc[p] = "done" /\ Len(outcomes[p]) = 1
                /\ outcomes[p] # <<"Cancelled">>
                /\ timers[p] = {}
                /\ AllNumeric(p) => log[p] = FirstValues(p, Total(p)))

C22_Witness ==
    \E p \in Procs :
        /\ CancelledAt(p, {"done"}) /\ options[p].onProgress
        /\ Total(p) = 2 /\ timersStarted[p] = 2
        /\ outcomes[p] = <<"completed">> /\ Len(progress[p]) = 2

\* C23: abort listeners do not pile up on the caller's token: at most one
\* listener of an invocation is attached at any time, and none is attached
\* once the invocation has ended.
C23_ListenersDoNotAccumulate ==
    \A p \in Procs :
        /\ Cardinality(listeners[p]) <= 1
        /\ Terminated(p) => listeners[p] = {}

\* ------------------------------------------------------------ UserTable
\* The rows the table body shows: none while the skeleton is shown.
DisplayedRows == IF table.initialLoading THEN <<>> ELSE targetUsers(table)

\* C24: in pagination mode, whatever was clicked and whichever filter is
\* set, also while the data is loading, 1 <= currentPage <=
\* max(1, totalPages), and the page slice is non-empty whenever the filtered
\* list is non-empty.
C24_CurrentPageInRange ==
    ~table.isInfiniteScroll =>
        /\ 1 <= table.currentPage
        /\ table.currentPage <= Max(1, totalPages(table))
        /\ Len(filteredUsers(table)) > 0 => Len(currentUsers(table)) > 0

\* C25: in infinite-scroll mode, however a pending load-more timeout
\* interleaves with filter, sort and rows-per-page changes, visibleUsers is
\* a prefix of the current sortedUsers.
C25_VisibleIsPrefix ==
    table.isInfiniteScroll =>
        /\ Len(table.visibleUsers) <= Len(sortedUsers(table))
        /\ table.visibleUsers
             = JsSlice(sortedUsers(table), 0, Len(table.visibleUsers))

\* C26: selectAll is true exactly when at least one row is displayed and
\* every displayed row is in selectedUsers.
C26_SelectAllMatchesRows ==
    table.selectAll <=>
        /\ Len(DisplayedRows) > 0
        /\ \A k \in 1..Len(DisplayedRows) :
             Includes(table.selectedUsers, DisplayedRows[k].id)

====
